---- MODULE Spec2Model ----
(***************************************************************************)
(* State-machine model of the ride dispatch backend                        *)
(* (backend/services/dispatch.py, backend/routers/*.py).                    *)
(*                                                                         *)
(* Scaling conventions.  Coordinates, speeds and scores are Python floats  *)
(* in the source; the model uses integers.  Scores are kept in tenths so   *)
(* that DISPATCH_BETA = 0.1 is the integer 1 and DISPATCH_ALPHA = 1.0 is   *)
(* the integer 10.  REJECTION_RATE and the value of random.random() are    *)
(* kept in tenths as well (rate 10 is probability 1).                      *)
(*                                                                         *)
(* Python dicts iterate in insertion order.  Every insertion into          *)
(* drivers / riders / requests uses a key taken from a counter that only   *)
(* grows between two clear() calls, and re-assigning an existing key keeps *)
(* its position, so iteration order is always ascending id order.          *)
(***************************************************************************)
EXTENDS Integers, Sequences, FiniteSets, TLC

VARIABLES
    drivers,                  \* dispatch.drivers  : id -> Driver
    riders,                   \* dispatch.riders   : id -> Rider
    requests,                 \* dispatch.requests : id -> RideRequest
    driver_counter,           \* services.dispatch.driver_counter
    rider_counter,            \* services.dispatch.rider_counter
    request_counter,          \* services.dispatch.request_counter
    drivers_driver_counter,   \* routers.drivers.driver_counter (own module global)
    riders_rider_counter,     \* routers.riders.rider_counter (own module global)
    requests_request_counter, \* routers.requests.request_counter (own module global)
    current_time,             \* services.dispatch.current_time
    REJECTION_RATE,           \* config.REJECTION_RATE, resolved at start-up (tenths)
    MOVE_SPEED,               \* config.MOVE_SPEED, resolved at start-up
    last,                     \* the call just served: operation, arguments, HTTP status
    results,                  \* "results" of the Dispatch call just served
    offers,                   \* history: the offers made by the Dispatch call just served
    updated_requests,         \* "updated_requests" of the Tick call just served
    trip_ticks,               \* history: Tick calls since the last Dispatch (scenario runs)
    events,                   \* history: the events of the Tick calls served so far (trip runs)
    calls,                    \* history: the number of calls served so far (runs over every endpoint)
    probe,                    \* inputs and output of a move_towards_target call (movement runs)
    data_lock,                \* dispatch.data_lock: the caller holding it, None when free
    frames                    \* per caller: the handler it is in, its arguments and position

world == <<drivers, riders, requests>>
counters == <<driver_counter, rider_counter, request_counter,
              drivers_driver_counter, riders_rider_counter, requests_request_counter>>
config == <<REJECTION_RATE, MOVE_SPEED>>
vars == <<drivers, riders, requests, driver_counter, rider_counter, request_counter,
          drivers_driver_counter, riders_rider_counter, requests_request_counter,
          current_time, REJECTION_RATE, MOVE_SPEED, last, results, offers, updated_requests,
          trip_ticks, events, calls, probe, data_lock, frames>>

----------------------------------------------------------------------------
(* Bounds of the model *)

\* number of calls served in a run over every endpoint
MaxCalls == 3
\* number of callers that may be inside a handler at the same time
MaxCallers == 2
\* number of drivers plus requests the routers may create
MaxEntities == 3
\* number of riders routers.riders may create
MaxRiders == 1
\* number of Tick calls served
MaxTime == 2
\* number of Tick calls served in a scenario run
MaxScenarioTime == 10
\* largest coordinate drawn for a movement probe
MaxProbe == 4
\* largest MOVE_SPEED drawn for a movement probe
MaxProbeSpeed == 3
\* drivers of the worlds the manual rejects are served on
MaxDrivers == 3

----------------------------------------------------------------------------
(* Program constants *)

\* Optional[int] = None; ids start at 1 and `if driver.assigned_request_id`
\* treats 0 and None alike
None == 0
\* config.DISPATCH_ALPHA default 1.0, in tenths
DISPATCH_ALPHA == 10
\* config.DISPATCH_BETA default 0.1, in tenths
DISPATCH_BETA == 1
\* float('inf') as the initial best_score: above every reachable score
Infinity == 1000000

AVAILABLE == "available"
ON_TRIP == "on_trip"
OFFLINE == "offline"
DriverStatus == {AVAILABLE, ON_TRIP, OFFLINE}

WAITING == "waiting"
ASSIGNED == "assigned"
REJECTED == "rejected"
COMPLETED == "completed"
FAILED == "failed"
RequestStatus == {WAITING, ASSIGNED, REJECTED, COMPLETED, FAILED}

----------------------------------------------------------------------------
(* Inputs the environment may send *)

\* driver positions in create-driver calls
DriverSpots == {<<0, 0>>, <<2, 1>>}
\* pickup / dropoff places in create-rider and create-request calls
Places == {<<0, 0>>, <<2, 1>>}
\* <<pickup, dropoff>> of create-rider calls
RiderTrips == {<<<<0, 0>>, <<2, 1>>>>}
\* <<pickup, dropoff>> of create-request and update-rider calls
Trips == {<<<<0, 0>>, <<2, 1>>>>, <<<<2, 1>>, <<0, 0>>>>}
\* values of random.random() in tenths: below 0.1, and at or above it
RandomDraws == {0, 5}
\* resolved REJECTION_RATE values (tenths): 0, the default 0.1, and 1
RejectionRates == {0, 1, 10}
\* the <<REJECTION_RATE, MOVE_SPEED>> deployments of the service runs
Deployments == {<<1, 2>>, <<10, 1>>}
\* resolved MOVE_SPEED values
MoveSpeeds == {1, 2}

----------------------------------------------------------------------------
(* Dict helpers *)

Put(f, k, v) == [i \in (DOMAIN f) \cup {k} |-> IF i = k THEN v ELSE f[i]]
Del(f, k) == [i \in (DOMAIN f) \ {k} |-> f[i]]
EmptyDict == [i \in {} |-> 0]

Min(a, b) == IF a < b THEN a ELSE b
Max(a, b) == IF a > b THEN a ELSE b
Abs(a) == IF a < 0 THEN -a ELSE a

\* keys of a dict in iteration (ascending id) order
RECURSIVE KeysInOrder(_)
KeysInOrder(S) ==
    IF S = {} THEN <<>>
    ELSE LET m == CHOOSE x \in S : \A y \in S : x <= y
         IN <<m>> \o KeysInOrder(S \ {m})

\* a faulty variant of list.remove(x) that leaves the list as it was
ListRemove_keeps(list, x) == list

\* list.remove(x): drop the first element equal to x
RECURSIVE ListRemove(_, _)
ListRemove(list, x) ==
    IF list = <<>> THEN <<>>
    ELSE IF Head(list) = x THEN Tail(list)
         ELSE <<Head(list)>> \o ListRemove(Tail(list), x)

----------------------------------------------------------------------------
(* Entities *)

Driver(id, x, y, status, assigned_request_id) ==
    [id |-> id, x |-> x, y |-> y, status |-> status,
     assigned_request_id |-> assigned_request_id]

Rider(id, pickup, dropoff) ==
    [id |-> id, pickup_x |-> pickup[1], pickup_y |-> pickup[2],
     dropoff_x |-> dropoff[1], dropoff_y |-> dropoff[2]]

RideRequest(id, rider_id, pickup, dropoff) ==
    [id |-> id, rider_id |-> rider_id,
     pickup_x |-> pickup[1], pickup_y |-> pickup[2],
     dropoff_x |-> dropoff[1], dropoff_y |-> dropoff[2],
     status |-> WAITING, attempts |-> 0, assigned_driver_id |-> None,
     picked_up |-> FALSE]

----------------------------------------------------------------------------
(* Utility functions *)

calculate_manhattan_distance(x1, y1, x2, y2) == Abs(x1 - x2) + Abs(y1 - y2)

calculate_driver_score(driver, request) ==
    LET eta_to_pickup == calculate_manhattan_distance(
                             driver.x, driver.y, request.pickup_x, request.pickup_y)
        num_assigned == IF driver.assigned_request_id # None THEN 1 ELSE 0
    IN DISPATCH_ALPHA * eta_to_pickup + DISPATCH_BETA * num_assigned

\* a faulty variant of the scan with <= for <: the last of equal scores wins
RECURSIVE ScanBest_last_of_ties(_, _, _, _, _)
ScanBest_last_of_ties(list, drv, request, best_driver, best_score) ==
    IF list = <<>> THEN best_driver
    ELSE LET score == calculate_driver_score(drv[Head(list)], request)
         IN IF score <= best_score
            THEN ScanBest_last_of_ties(Tail(list), drv, request, Head(list), score)
            ELSE ScanBest_last_of_ties(Tail(list), drv, request, best_driver, best_score)

\* the scan `for driver in list: if score < best_score: ...` started from
\* (best_driver, best_score); drv is the live driver dict the list refers into
RECURSIVE ScanBest(_, _, _, _, _)
ScanBest(list, drv, request, best_driver, best_score) ==
    IF list = <<>> THEN best_driver
    ELSE LET score == calculate_driver_score(drv[Head(list)], request)
         IN IF score < best_score
            THEN ScanBest(Tail(list), drv, request, Head(list), score)
            ELSE ScanBest(Tail(list), drv, request, best_driver, best_score)

\* a faulty variant that moves along one axis at a time: y only once x is aligned
move_towards_target_one_axis(current_x, current_y, target_x, target_y) ==
    LET new_x == IF current_x < target_x THEN Min(current_x + MOVE_SPEED, target_x)
                 ELSE IF current_x > target_x THEN Max(current_x - MOVE_SPEED, target_x)
                 ELSE current_x
        new_y == IF current_x # target_x THEN current_y
                 ELSE IF current_y < target_y THEN Min(current_y + MOVE_SPEED, target_y)
                 ELSE IF current_y > target_y THEN Max(current_y - MOVE_SPEED, target_y)
                 ELSE current_y
    IN <<new_x, new_y>>

\* a faulty variant without the min()/max() clamp at the target
move_towards_target_unclamped(current_x, current_y, target_x, target_y) ==
    LET new_x == IF current_x < target_x THEN current_x + MOVE_SPEED
                 ELSE IF current_x > target_x THEN current_x - MOVE_SPEED
                 ELSE current_x
        new_y == IF current_y < target_y THEN current_y + MOVE_SPEED
                 ELSE IF current_y > target_y THEN current_y - MOVE_SPEED
                 ELSE current_y
    IN <<new_x, new_y>>

\* new_x, new_y of move_towards_target: both axes step in the same call
move_towards_target(current_x, current_y, target_x, target_y) ==
    LET new_x == IF current_x < target_x THEN Min(current_x + MOVE_SPEED, target_x)
                 ELSE IF current_x > target_x THEN Max(current_x - MOVE_SPEED, target_x)
                 ELSE current_x
        new_y == IF current_y < target_y THEN Min(current_y + MOVE_SPEED, target_y)
                 ELSE IF current_y > target_y THEN Max(current_y - MOVE_SPEED, target_y)
                 ELSE current_y
    IN <<new_x, new_y>>

\* random.random() < REJECTION_RATE, for the value u drawn
simulate_driver_rejection(u) == u < REJECTION_RATE

----------------------------------------------------------------------------
(* Dispatch logic.  A run state w is [drivers, requests, results, offers]:  *)
(* the two dicts as mutated so far, the results list built so far and the  *)
(* offers made so far (each pass of the while loop offers the request to   *)
(* best_driver and draws the driver's answer).  Every call                 *)
(* of simulate_driver_rejection draws afresh, so the operators return the  *)
(* set of run states the call can end in.                                  *)

\* a faulty variant that takes up Failed requests again
waiting_requests_and_failed(reqs) ==
    KeysInOrder({r \in DOMAIN reqs : reqs[r].status \in {WAITING, FAILED}})

\* waiting_requests = [req for req in requests.values() if req.status == WAITING]
waiting_requests(reqs) == KeysInOrder({r \in DOMAIN reqs : reqs[r].status = WAITING})

\* a faulty variant of the snapshot that keeps every driver not on a trip
all_available_drivers_not_on_trip(drv) ==
    KeysInOrder({d \in DOMAIN drv : drv[d].status # ON_TRIP})

\* a faulty variant of the snapshot that takes Offline drivers too
all_available_drivers_and_offline(drv) ==
    KeysInOrder({d \in DOMAIN drv : drv[d].status \in {AVAILABLE, OFFLINE}})

\* all_available_drivers = [driver for ... if driver.status == AVAILABLE]
all_available_drivers(drv) == KeysInOrder({d \in DOMAIN drv : drv[d].status = AVAILABLE})

\* a faulty variant of the accept branch that counts the accepted offer among
\* the stored attempts
AcceptOffer_counts_accept(w, rid, best_driver, attempts_made) ==
    [drivers |-> [w.drivers EXCEPT ![best_driver].status = ON_TRIP,
                                   ![best_driver].assigned_request_id = w.requests[rid].id],
     requests |-> [w.requests EXCEPT ![rid].status = ASSIGNED,
                                     ![rid].assigned_driver_id = w.drivers[best_driver].id,
                                     ![rid].attempts = attempts_made + 1],
     offers |-> w.offers,
     results |-> Append(w.results,
                        [request_id |-> w.requests[rid].id,
                         assigned_driver_id |-> w.drivers[best_driver].id,
                         attempts |-> attempts_made,
                         status |-> "assigned"])]

\* the accept branch: request -> Assigned, driver -> OnTrip, one result entry
AcceptOffer(w, rid, best_driver, attempts_made) ==
    [drivers |-> [w.drivers EXCEPT ![best_driver].status = ON_TRIP,
                                   ![best_driver].assigned_request_id = w.requests[rid].id],
     requests |-> [w.requests EXCEPT ![rid].status = ASSIGNED,
                                     ![rid].assigned_driver_id = w.drivers[best_driver].id,
                                     ![rid].attempts = attempts_made],
     offers |-> w.offers,
     results |-> Append(w.results,
                        [request_id |-> w.requests[rid].id,
                         assigned_driver_id |-> w.drivers[best_driver].id,
                         attempts |-> attempts_made,
                         status |-> "assigned"])]

\* a faulty variant of the failure branch that reports attempts but does not
\* store them on the request
FailRequest_attempts_not_stored(w, rid, attempts_made) ==
    [drivers |-> w.drivers,
     requests |-> [w.requests EXCEPT ![rid].status = FAILED],
     offers |-> w.offers,
     results |-> Append(w.results,
                        [request_id |-> w.requests[rid].id,
                         assigned_driver_id |-> None,
                         attempts |-> attempts_made,
                         status |-> "failed"])]

\* the branch after the loop when all drivers rejected
FailRequest(w, rid, attempts_made) ==
    [drivers |-> w.drivers,
     requests |-> [w.requests EXCEPT ![rid].status = FAILED,
                                     ![rid].attempts = attempts_made],
     offers |-> w.offers,
     results |-> Append(w.results,
                        [request_id |-> w.requests[rid].id,
                         assigned_driver_id |-> None,
                         attempts |-> attempts_made,
                         status |-> "failed"])]

\* a faulty variant of the exhaustion test with > for >=
AfterOffers_strict(w, rid, attempts_made, max_attempts) ==
    IF attempts_made > max_attempts THEN FailRequest(w, rid, attempts_made) ELSE w

\* `if attempts_made >= max_attempts:` after the while loop
AfterOffers(w, rid, attempts_made, max_attempts) ==
    IF attempts_made >= max_attempts THEN FailRequest(w, rid, attempts_made) ELSE w

\* one pass of the while loop: the request offered to a driver, and the answer
Offer(request_id, driver_id, accepted) ==
    [request_id |-> request_id, driver_id |-> driver_id, accepted |-> accepted]

\* `while attempts_made < max_attempts:` with its body, then the code after it
RECURSIVE OfferLoop(_, _, _, _, _, _)
OfferLoop(w, rid, available_drivers, best_driver, attempts_made, max_attempts) ==
    IF attempts_made < max_attempts
    THEN UNION {
           LET wo == [w EXCEPT !.offers = Append(@, Offer(w.requests[rid].id, best_driver,
                                                          ~simulate_driver_rejection(u)))]
           IN IF simulate_driver_rejection(u)
              THEN LET rest == ListRemove(available_drivers, best_driver)
                   IN IF rest # <<>>
                      THEN OfferLoop(wo, rid, rest,
                                     ScanBest(rest, wo.drivers, wo.requests[rid],
                                              best_driver, Infinity),
                                     attempts_made + 1, max_attempts)
                      ELSE {AfterOffers(wo, rid, attempts_made + 1, max_attempts)}
              ELSE {AfterOffers(AcceptOffer(wo, rid, best_driver, attempts_made),
                                rid, attempts_made, max_attempts)}
           : u \in RandomDraws }
    ELSE {AfterOffers(w, rid, attempts_made, max_attempts)}

\* the body of `for request in waiting_requests:`
ProcessRequest(w, rid, snapshot) ==
    LET available_drivers == snapshot
        best_driver == ScanBest(available_drivers, w.drivers, w.requests[rid],
                                None, Infinity)
    IN IF best_driver # None
       THEN OfferLoop(w, rid, available_drivers, best_driver, 0, Len(available_drivers))
       ELSE {w}

RECURSIVE ProcessRequests(_, _, _)
ProcessRequests(w, waiting, snapshot) ==
    IF waiting = <<>> THEN {w}
    ELSE UNION { ProcessRequests(w2, Tail(waiting), snapshot)
                 : w2 \in ProcessRequest(w, Head(waiting), snapshot) }

dispatch_ride_internal(drv, reqs) ==
    LET w0 == [drivers |-> drv, requests |-> reqs, results |-> <<>>, offers |-> <<>>]
    IN IF waiting_requests(reqs) = <<>> THEN {w0}
       ELSE IF all_available_drivers(drv) = <<>> THEN {w0}
       ELSE ProcessRequests(w0, waiting_requests(reqs), all_available_drivers(drv))

----------------------------------------------------------------------------
(* Tick logic.  A run state t is [drivers, requests, updated_requests].    *)

Event(driver, request, event) ==
    [driver_id |-> driver.id, request_id |-> request.id, event |-> event]

\* a faulty variant of the tick filter that ignores the driver's status
TickEligible_any_status(driver) ==
    driver.assigned_request_id # None

\* `if driver.status == ON_TRIP and driver.assigned_request_id:`
TickEligible(driver) ==
    driver.status = ON_TRIP /\ driver.assigned_request_id # None

\* a faulty variant of the pickup branch without the case of a driver that is
\* on the pickup place already
TickToPickup_moving_only(t, d, rid) ==
    LET driver == t.drivers[d]
        request == t.requests[rid]
        distance_to_pickup == calculate_manhattan_distance(
                                  driver.x, driver.y, request.pickup_x, request.pickup_y)
        new == move_towards_target(driver.x, driver.y, request.pickup_x, request.pickup_y)
        moved == [t.drivers EXCEPT ![d].x = new[1], ![d].y = new[2]]
    IN IF distance_to_pickup > 0
       THEN IF calculate_manhattan_distance(new[1], new[2],
                                            request.pickup_x, request.pickup_y) = 0
            THEN [drivers |-> moved,
                  requests |-> [t.requests EXCEPT ![rid].picked_up = TRUE],
                  updated_requests |->
                      Append(t.updated_requests, Event(driver, request, "reached_pickup"))]
            ELSE [t EXCEPT !.drivers = moved]
       ELSE t

\* the `if not request.picked_up:` branch
TickToPickup(t, d, rid) ==
    LET driver == t.drivers[d]
        request == t.requests[rid]
        distance_to_pickup == calculate_manhattan_distance(
                                  driver.x, driver.y, request.pickup_x, request.pickup_y)
        new == move_towards_target(driver.x, driver.y, request.pickup_x, request.pickup_y)
        moved == [t.drivers EXCEPT ![d].x = new[1], ![d].y = new[2]]
        reached == [t.requests EXCEPT ![rid].picked_up = TRUE]
    IN IF distance_to_pickup > 0
       THEN IF calculate_manhattan_distance(new[1], new[2],
                                            request.pickup_x, request.pickup_y) = 0
            THEN [drivers |-> moved,
                  requests |-> [t.requests EXCEPT ![rid].picked_up = TRUE],
                  updated_requests |->
                      Append(t.updated_requests, Event(driver, request, "reached_pickup"))]
            ELSE [t EXCEPT !.drivers = moved]
       ELSE IF distance_to_pickup = 0
            THEN [t EXCEPT !.requests = reached,
                           !.updated_requests =
                               Append(@, Event(driver, request, "reached_pickup"))]
            ELSE t

\* a faulty variant of the dropoff branch that completes the request but does
\* not release the driver
TickToDropoff_keeps_driver(t, d, rid) ==
    LET driver == t.drivers[d]
        request == t.requests[rid]
        distance_to_dropoff == calculate_manhattan_distance(
                                   driver.x, driver.y, request.dropoff_x, request.dropoff_y)
        new == move_towards_target(driver.x, driver.y, request.dropoff_x, request.dropoff_y)
        moved == [t.drivers EXCEPT ![d].x = new[1], ![d].y = new[2]]
    IN IF distance_to_dropoff > 0
       THEN IF calculate_manhattan_distance(new[1], new[2],
                                            request.dropoff_x, request.dropoff_y) = 0
            THEN [drivers |-> moved,
                  requests |-> [t.requests EXCEPT ![rid].status = COMPLETED,
                                                  ![rid].picked_up = FALSE],
                  updated_requests |->
                      Append(t.updated_requests, Event(driver, request, "completed"))]
            ELSE [t EXCEPT !.drivers = moved]
       ELSE t

\* the `else:` branch (already picked up)
TickToDropoff(t, d, rid) ==
    LET driver == t.drivers[d]
        request == t.requests[rid]
        distance_to_dropoff == calculate_manhattan_distance(
                                   driver.x, driver.y, request.dropoff_x, request.dropoff_y)
        new == move_towards_target(driver.x, driver.y, request.dropoff_x, request.dropoff_y)
        moved == [t.drivers EXCEPT ![d].x = new[1], ![d].y = new[2]]
    IN IF distance_to_dropoff > 0
       THEN IF calculate_manhattan_distance(new[1], new[2],
                                            request.dropoff_x, request.dropoff_y) = 0
            THEN [drivers |-> [moved EXCEPT ![d].status = AVAILABLE,
                                            ![d].assigned_request_id = None],
                  requests |-> [t.requests EXCEPT ![rid].status = COMPLETED,
                                                  ![rid].picked_up = FALSE],
                  updated_requests |->
                      Append(t.updated_requests, Event(driver, request, "completed"))]
            ELSE [t EXCEPT !.drivers = moved]
       ELSE t

\* a faulty variant of the loop body that goes on to the dropoff in the tick
\* in which the driver reached the pickup
TickDriver_through(t, d) ==
    IF TickEligible(t.drivers[d])
    THEN LET rid == t.drivers[d].assigned_request_id
         IN IF rid \notin DOMAIN t.requests THEN t
            ELSE IF ~t.requests[rid].picked_up
            THEN LET t1 == TickToPickup(t, d, rid)
                 IN IF t1.requests[rid].picked_up THEN TickToDropoff(t1, d, rid) ELSE t1
            ELSE TickToDropoff(t, d, rid)
    ELSE t

\* the body of `for driver in drivers.values():`
TickDriver(t, d) ==
    IF TickEligible(t.drivers[d])
    THEN LET rid == t.drivers[d].assigned_request_id
         IN IF rid \notin DOMAIN t.requests THEN t
            ELSE IF ~t.requests[rid].picked_up THEN TickToPickup(t, d, rid)
            ELSE TickToDropoff(t, d, rid)
    ELSE t

RECURSIVE TickLoop(_, _)
TickLoop(t, ids) ==
    IF ids = <<>> THEN t ELSE TickLoop(TickDriver(t, Head(ids)), Tail(ids))

tick_internal(drv, reqs) ==
    TickLoop([drivers |-> drv, requests |-> reqs, updated_requests |-> <<>>],
             KeysInOrder(DOMAIN drv))

----------------------------------------------------------------------------
(* The calls.  Each handler runs to its return in one step: the handlers   *)
(* are coroutines without an await, served one at a time by the event      *)
(* loop.                                                                   *)

\* an id no entity has (test_new_endpoints.py uses 999)
MissingId == 999

Call(op, code, request_id, driver_id) ==
    [op |-> op, code |-> code, request_id |-> request_id, driver_id |-> driver_id]

\* the callers that can be inside a handler at the same time
Callers == 1..MaxCallers

\* a caller outside every handler
IdleFrame ==
    [pc |-> "idle", op |-> "none", request_id |-> None, driver_id |-> None,
     status |-> "none", checked |-> FALSE]

\* no caller is inside a handler and data_lock is free
NoCallers ==
    /\ data_lock = None
    /\ frames = [c \in Callers |-> IdleFrame]

\* what a call other than Dispatch / Tick leaves of their return values
NoLists == results' = <<>> /\ offers' = <<>> /\ updated_requests' = <<>>

\* variables no handler writes
Fixed == UNCHANGED <<REJECTION_RATE, MOVE_SPEED, trip_ticks, events, calls, probe, data_lock, frames>>

DriverIdInputs == (DOMAIN drivers) \cup {MissingId}
RiderIdInputs == (DOMAIN riders) \cup {MissingId}
RequestIdInputs == (DOMAIN requests) \cup {MissingId}

\* drivers plus requests the routers created so far
CreatedEntities == (drivers_driver_counter - 1) + (requests_request_counter - 1)

\* POST /drivers/
create_driver(pos, status) ==
    /\ CreatedEntities < MaxEntities
    /\ LET new_id == drivers_driver_counter
       IN /\ drivers_driver_counter' = drivers_driver_counter + 1
          /\ drivers' = Put(drivers, new_id, Driver(new_id, pos[1], pos[2], status, None))
          /\ last' = Call("create_driver", 200, None, None)
    /\ NoLists
    /\ UNCHANGED <<riders, requests, driver_counter, rider_counter, request_counter,
                   riders_rider_counter, requests_request_counter, current_time>>

\* a faulty variant that drops the assignment when it rebuilds the driver
StatusUpdatedDriver_unassigned(existing_driver, driver_id, status) ==
    Driver(driver_id, existing_driver.x, existing_driver.y, status, None)

\* the driver written by _update_driver_status_internal
StatusUpdatedDriver(existing_driver, driver_id, status) ==
    Driver(driver_id, existing_driver.x, existing_driver.y, status,
           existing_driver.assigned_request_id)

\* PATCH /drivers/{driver_id}/status
update_driver_status(driver_id, status) ==
    /\ IF driver_id \notin DOMAIN drivers
       THEN /\ last' = Call("update_driver_status", 404, None, None)
            /\ UNCHANGED drivers
       ELSE /\ drivers' = [drivers EXCEPT ![driver_id] =
                              StatusUpdatedDriver(drivers[driver_id], driver_id, status)]
            /\ last' = Call("update_driver_status", 200, None, None)
    /\ NoLists
    /\ UNCHANGED <<riders, requests, counters, current_time>>

\* DELETE /drivers/{driver_id}
delete_driver(driver_id) ==
    /\ IF driver_id \notin DOMAIN drivers
       THEN /\ last' = Call("delete_driver", 404, None, None)
            /\ UNCHANGED drivers
       ELSE /\ drivers' = Del(drivers, driver_id)
            /\ last' = Call("delete_driver", 200, None, None)
    /\ NoLists
    /\ UNCHANGED <<riders, requests, counters, current_time>>

\* POST /riders/
create_rider(pickup, dropoff) ==
    /\ riders_rider_counter <= MaxRiders
    /\ LET new_id == riders_rider_counter
       IN /\ riders_rider_counter' = riders_rider_counter + 1
          /\ riders' = Put(riders, new_id, Rider(new_id, pickup, dropoff))
    /\ last' = Call("create_rider", 200, None, None)
    /\ NoLists
    /\ UNCHANGED <<drivers, requests, driver_counter, rider_counter, request_counter,
                   drivers_driver_counter, requests_request_counter, current_time>>

\* PUT /riders/{rider_id}
update_rider(rider_id, pickup, dropoff) ==
    /\ IF rider_id \notin DOMAIN riders
       THEN /\ last' = Call("update_rider", 404, None, None)
            /\ UNCHANGED riders
       ELSE /\ riders' = [riders EXCEPT ![rider_id] = Rider(rider_id, pickup, dropoff)]
            /\ last' = Call("update_rider", 200, None, None)
    /\ NoLists
    /\ UNCHANGED <<drivers, requests, counters, current_time>>

\* DELETE /riders/{rider_id}
delete_rider(rider_id) ==
    /\ IF rider_id \notin DOMAIN riders
       THEN /\ last' = Call("delete_rider", 404, None, None)
            /\ UNCHANGED riders
       ELSE /\ riders' = Del(riders, rider_id)
            /\ last' = Call("delete_rider", 200, None, None)
    /\ NoLists
    /\ UNCHANGED <<drivers, requests, counters, current_time>>

\* POST /requests/
create_request(rider_id, pickup, dropoff) ==
    /\ IF rider_id \notin DOMAIN riders
       THEN /\ last' = Call("create_request", 400, None, None)
            /\ UNCHANGED <<requests, requests_request_counter>>
       ELSE /\ CreatedEntities < MaxEntities
            /\ LET new_id == requests_request_counter
               IN /\ requests_request_counter' = requests_request_counter + 1
                  /\ requests' = Put(requests, new_id,
                                     RideRequest(new_id, rider_id, pickup, dropoff))
                  /\ last' = Call("create_request", 200, None, None)
    /\ NoLists
    /\ UNCHANGED <<drivers, riders, driver_counter, rider_counter, request_counter,
                   drivers_driver_counter, riders_rider_counter, current_time>>

\* a faulty variant of the validation that does not look at the driver's status
AcceptCheck_any_driver(request_id, driver_id) ==
    IF request_id \notin DOMAIN requests THEN 404
    ELSE IF requests[request_id].status # WAITING THEN 400
    ELSE IF driver_id \notin DOMAIN drivers THEN 404
    ELSE 200

\* the HTTP status the validation in accept_request ends with (200: passed)
AcceptCheck(request_id, driver_id) ==
    IF request_id \notin DOMAIN requests THEN 404
    ELSE IF requests[request_id].status # WAITING THEN 400
    ELSE IF driver_id \notin DOMAIN drivers THEN 404
    ELSE IF drivers[driver_id].status # AVAILABLE THEN 400
    ELSE 200

\* a faulty variant that hands the request to the best-scored Available driver
\* instead of the named one
accept_request_internal_best(drv, reqs, request_id, driver_id) ==
    LET best == ScanBest(KeysInOrder({d \in DOMAIN drv : drv[d].status = AVAILABLE}),
                         drv, reqs[request_id], driver_id, Infinity)
    IN [drivers |-> [drv EXCEPT ![best].status = ON_TRIP,
                                ![best].assigned_request_id = request_id],
        requests |-> [reqs EXCEPT ![request_id].status = ASSIGNED,
                                  ![request_id].assigned_driver_id = best,
                                  ![request_id].attempts = 0]]

\* _accept_request_internal: the dicts it leaves
accept_request_internal(drv, reqs, request_id, driver_id) ==
    [drivers |-> [drv EXCEPT ![driver_id].status = ON_TRIP,
                             ![driver_id].assigned_request_id = request_id],
     requests |-> [reqs EXCEPT ![request_id].status = ASSIGNED,
                               ![request_id].assigned_driver_id = driver_id,
                               ![request_id].attempts = 0]]

\* POST /requests/{request_id}/accept
accept_request(request_id, driver_id) ==
    /\ LET code == AcceptCheck(request_id, driver_id)
       IN IF code # 200
          THEN /\ last' = Call("accept_request", code, None, None)
               /\ UNCHANGED <<drivers, requests>>
          ELSE LET w == accept_request_internal(drivers, requests, request_id, driver_id)
               IN /\ drivers' = w.drivers
                  /\ requests' = w.requests
                  /\ last' = Call("accept_request", 200, request_id, driver_id)
    /\ NoLists
    /\ UNCHANGED <<riders, counters, current_time>>

\* a faulty variant that admits a request of any status
RejectCheck_any_status(request_id, driver_id) ==
    IF request_id \notin DOMAIN requests THEN 404
    ELSE IF driver_id \notin DOMAIN drivers THEN 404
    ELSE 200

\* the HTTP status the validation in reject_request ends with (200: passed)
RejectCheck(request_id, driver_id) ==
    IF request_id \notin DOMAIN requests THEN 404
    ELSE IF requests[request_id].status # WAITING THEN 400
    ELSE IF driver_id \notin DOMAIN drivers THEN 404
    ELSE 200

\* a faulty variant that does not apply the exclude list
find_best_driver_no_exclude(drv, request, exclude) ==
    LET available_drivers == KeysInOrder({d \in DOMAIN drv : drv[d].status = AVAILABLE})
    IN IF available_drivers = <<>> THEN None
       ELSE ScanBest(available_drivers, drv, request, None, Infinity)

\* find_best_driver(request, exclude): None when no driver qualifies
find_best_driver(drv, request, exclude) ==
    LET available_drivers ==
            KeysInOrder({d \in DOMAIN drv :
                            drv[d].status = AVAILABLE /\ drv[d].id \notin exclude})
    IN IF available_drivers = <<>> THEN None
       ELSE ScanBest(available_drivers, drv, request, None, Infinity)

\* _reject_request_internal: the dicts it leaves
reject_request_internal(drv, reqs, request_id, driver_id) ==
    LET bumped == [reqs EXCEPT ![request_id].attempts = @ + 1]
        best_driver == find_best_driver(drv, bumped[request_id], {driver_id})
    IN IF best_driver # None
       THEN [drivers |-> [drv EXCEPT ![best_driver].status = ON_TRIP,
                                     ![best_driver].assigned_request_id = request_id],
             requests |-> [bumped EXCEPT ![request_id].status = ASSIGNED,
                                         ![request_id].assigned_driver_id =
                                             drv[best_driver].id]]
       ELSE [drivers |-> drv,
             requests |-> [bumped EXCEPT ![request_id].status = FAILED,
                                         ![request_id].assigned_driver_id = None]]

\* POST /requests/{request_id}/reject
reject_request(request_id, driver_id) ==
    /\ LET code == RejectCheck(request_id, driver_id)
       IN IF code # 200
          THEN /\ last' = Call("reject_request", code, None, None)
               /\ UNCHANGED <<drivers, requests>>
          ELSE LET w == reject_request_internal(drivers, requests, request_id, driver_id)
               IN /\ drivers' = w.drivers
                  /\ requests' = w.requests
                  /\ last' = Call("reject_request", 200, request_id, driver_id)
    /\ NoLists
    /\ UNCHANGED <<riders, counters, current_time>>

\* POST /dispatch
dispatch_ride ==
    /\ \E w \in dispatch_ride_internal(drivers, requests) :
          /\ drivers' = w.drivers
          /\ requests' = w.requests
          /\ results' = w.results
          /\ offers' = w.offers
    /\ updated_requests' = <<>>
    /\ last' = Call("dispatch_ride", 200, None, None)
    /\ UNCHANGED <<riders, counters, current_time>>

\* POST /tick
tick ==
    /\ current_time' = current_time + 1
    /\ LET t == tick_internal(drivers, requests)
       IN /\ drivers' = t.drivers
          /\ requests' = t.requests
          /\ updated_requests' = t.updated_requests
    /\ results' = <<>>
    /\ offers' = <<>>
    /\ last' = Call("tick", 200, None, None)
    /\ UNCHANGED <<riders, counters>>

\* sample_drivers / sample_riders / sample_requests of init_sample_data
sample_drivers ==
    <<Driver(1, 0, 0, AVAILABLE, None), Driver(2, 5, 5, AVAILABLE, None),
      Driver(3, 10, 10, OFFLINE, None)>>
sample_riders ==
    <<Rider(1, <<2, 2>>, <<8, 8>>), Rider(2, <<15, 15>>, <<20, 20>>)>>
sample_requests ==
    <<RideRequest(1, 1, <<2, 2>>, <<8, 8>>), RideRequest(2, 2, <<15, 15>>, <<20, 20>>)>>

\* POST /init-sample-data
init_sample_data ==
    /\ drivers' = [i \in 1..Len(sample_drivers) |-> sample_drivers[i]]
    /\ riders' = [i \in 1..Len(sample_riders) |-> sample_riders[i]]
    /\ requests' = [i \in 1..Len(sample_requests) |-> sample_requests[i]]
    /\ driver_counter' = 1 + Len(sample_drivers)
    /\ rider_counter' = 1 + Len(sample_riders)
    /\ request_counter' = 1 + Len(sample_requests)
    /\ last' = Call("init_sample_data", 200, None, None)
    /\ NoLists
    /\ UNCHANGED <<drivers_driver_counter, riders_rider_counter,
                   requests_request_counter, current_time>>

\* POST /reset-all, were it to restart the clock as well
reset_all_data_restarts_clock ==
    /\ drivers' = EmptyDict
    /\ riders' = EmptyDict
    /\ requests' = EmptyDict
    /\ driver_counter' = 1
    /\ rider_counter' = 1
    /\ request_counter' = 1
    /\ current_time' = 0
    /\ last' = Call("reset_all_data", 200, None, None)
    /\ NoLists
    /\ UNCHANGED <<drivers_driver_counter, riders_rider_counter,
                   requests_request_counter>>

\* POST /reset-all
reset_all_data ==
    /\ drivers' = EmptyDict
    /\ riders' = EmptyDict
    /\ requests' = EmptyDict
    /\ driver_counter' = 1
    /\ rider_counter' = 1
    /\ request_counter' = 1
    /\ last' = Call("reset_all_data", 200, None, None)
    /\ NoLists
    /\ UNCHANGED <<drivers_driver_counter, riders_rider_counter,
                   requests_request_counter, current_time>>

----------------------------------------------------------------------------
(* The service: module state after import, then any call at any time.      *)

NoProbe == [applied |-> FALSE]

\* module globals right after import of services.dispatch and the routers
Imported ==
    /\ drivers = EmptyDict
    /\ riders = EmptyDict
    /\ requests = EmptyDict
    /\ driver_counter = 1
    /\ rider_counter = 1
    /\ request_counter = 1
    /\ drivers_driver_counter = 1
    /\ riders_rider_counter = 1
    /\ requests_request_counter = 1
    /\ current_time = 0
    /\ last = Call("start", 200, None, None)
    /\ results = <<>>
    /\ offers = <<>>
    /\ updated_requests = <<>>

Init ==
    /\ Imported
    /\ \E dep \in Deployments : REJECTION_RATE = dep[1] /\ MOVE_SPEED = dep[2]
    /\ trip_ticks = 0
    /\ events = <<>>
    /\ calls = 0
    /\ NoCallers
    /\ probe = NoProbe

CreateDriver ==
    (\E pos \in DriverSpots, status \in DriverStatus : create_driver(pos, status)) /\ Fixed
UpdateDriverStatus ==
    (\E d \in DriverIdInputs, status \in DriverStatus : update_driver_status(d, status))
    /\ Fixed
DeleteDriver == (\E d \in DriverIdInputs : delete_driver(d)) /\ Fixed
CreateRider == (\E t \in RiderTrips : create_rider(t[1], t[2])) /\ Fixed
UpdateRider ==
    (\E r \in RiderIdInputs, t \in Trips : update_rider(r, t[1], t[2])) /\ Fixed
DeleteRider == (\E r \in RiderIdInputs : delete_rider(r)) /\ Fixed
CreateRequest ==
    (\E r \in RiderIdInputs, t \in Trips : create_request(r, t[1], t[2])) /\ Fixed
AcceptRequest ==
    (\E r \in RequestIdInputs, d \in DriverIdInputs : accept_request(r, d)) /\ Fixed
RejectRequest ==
    (\E r \in RequestIdInputs, d \in DriverIdInputs : reject_request(r, d)) /\ Fixed
Dispatch == dispatch_ride /\ Fixed
Tick == current_time < MaxTime /\ tick /\ Fixed
InitSampleData == init_sample_data /\ Fixed
ResetAll == reset_all_data /\ Fixed

Next ==
    \/ CreateDriver
    \/ UpdateDriverStatus
    \/ CreateRider
    \/ CreateRequest
    \/ AcceptRequest
    \/ RejectRequest
    \/ Dispatch
    \/ Tick

Spec == Init /\ [][Next]_vars

----------------------------------------------------------------------------
(* Runs of the two engines and the manual accept / reject calls over a     *)
(* world that creation calls have built.                                   *)

\* the dicts and counters after nd create-driver, one create-rider and nr
\* create-request calls (any order), with the inputs drawn for them
Created(nd, nr, din, rin) ==
    /\ drivers = [i \in 1..nd |-> Driver(i, din[i][1][1], din[i][1][2], din[i][2], None)]
    /\ riders = [i \in 1..1 |-> Rider(i, <<0, 0>>, <<2, 1>>)]
    /\ requests = [i \in 1..nr |-> RideRequest(i, 1, rin[i][1], rin[i][2])]
    /\ driver_counter = 1
    /\ rider_counter = 1
    /\ request_counter = 1
    /\ drivers_driver_counter = nd + 1
    /\ riders_rider_counter = 2
    /\ requests_request_counter = nr + 1
    /\ current_time = 0
    /\ last = Call("start", 200, None, None)
    /\ results = <<>>
    /\ offers = <<>>
    /\ updated_requests = <<>>

InitCore ==
    /\ \E nd \in 1..(MaxEntities - 1) :
         \E nr \in 1..(MaxEntities - nd) :
           \E din \in [1..nd -> DriverSpots \X DriverStatus], rin \in [1..nr -> Trips] :
             Created(nd, nr, din, rin)
    /\ \E dep \in Deployments : REJECTION_RATE = dep[1] /\ MOVE_SPEED = dep[2]
    /\ trip_ticks = 0
    /\ events = <<>>
    /\ calls = 0
    /\ NoCallers
    /\ probe = NoProbe

NextCore ==
    \/ AcceptRequest
    \/ RejectRequest
    \/ Dispatch
    \/ Tick

SpecCore == InitCore /\ [][NextCore]_vars

\* the engines over a created world while driver statuses are switched by
\* PATCH /drivers/{driver_id}/status calls between the rounds
NextFleet ==
    \/ UpdateDriverStatus
    \/ Dispatch
    \/ Tick

SpecFleet == InitCore /\ [][NextFleet]_vars

\* the engines and the manual reject over a created world while driver
\* statuses are switched by PATCH /drivers/{driver_id}/status calls; the
\* service runs with the defaults of config.py
InitOffline ==
    /\ \E nd \in 1..(MaxEntities - 1) :
         \E nr \in 1..(MaxEntities - nd) :
           \E din \in [1..nd -> DriverSpots \X DriverStatus], rin \in [1..nr -> Trips] :
             Created(nd, nr, din, rin)
    /\ REJECTION_RATE = 1
    /\ MOVE_SPEED = 1
    /\ trip_ticks = 0
    /\ events = <<>>
    /\ calls = 0
    /\ NoCallers
    /\ probe = NoProbe

NextOffline ==
    \/ UpdateDriverStatus
    \/ RejectRequest
    \/ Dispatch
    \/ Tick

SpecOffline == InitOffline /\ [][NextOffline]_vars

\* the manual calls of the requests router over a created world
NextManual ==
    \/ AcceptRequest
    \/ RejectRequest

SpecManual == InitCore /\ [][NextManual]_vars

\* manual rejects, with driver statuses switched in between, over a world of
\* up to MaxDrivers drivers and two requests for the rider's stored trip, all
\* created through the routers; the service runs with the defaults of config.py
InitReject ==
    /\ \E nd \in 1..MaxDrivers :
         \E din \in [1..nd -> DriverSpots \X DriverStatus], rin \in [1..2 -> RiderTrips] :
           Created(nd, 2, din, rin)
    /\ REJECTION_RATE = 1
    /\ MOVE_SPEED = 1
    /\ trip_ticks = 0
    /\ events = <<>>
    /\ calls = 0
    /\ NoCallers
    /\ probe = NoProbe

NextReject ==
    \/ UpdateDriverStatus
    \/ RejectRequest

SpecReject == InitReject /\ [][NextReject]_vars

----------------------------------------------------------------------------
(* Scenario runs: one Available driver at (0,0), one Waiting request, any  *)
(* resolved configuration; Dispatch and Tick calls only.                   *)

\* pickup places of the scenario request; its dropoff is (8,8)
ScenarioPickups == {<<2, 2>>, <<0, 0>>, <<3, 1>>}

InitScenario ==
    /\ \E p \in ScenarioPickups :
         /\ drivers = [i \in 1..1 |-> Driver(i, 0, 0, AVAILABLE, None)]
         /\ riders = [i \in 1..1 |-> Rider(i, p, <<8, 8>>)]
         /\ requests = [i \in 1..1 |-> RideRequest(i, 1, p, <<8, 8>>)]
    /\ driver_counter = 1
    /\ rider_counter = 1
    /\ request_counter = 1
    /\ drivers_driver_counter = 2
    /\ riders_rider_counter = 2
    /\ requests_request_counter = 2
    /\ current_time = 0
    /\ last = Call("start", 200, None, None)
    /\ results = <<>>
    /\ offers = <<>>
    /\ updated_requests = <<>>
    /\ REJECTION_RATE \in RejectionRates
    /\ MOVE_SPEED \in MoveSpeeds
    /\ trip_ticks = 0
    /\ events = <<>>
    /\ calls = 0
    /\ NoCallers
    /\ probe = NoProbe

\* trip_ticks counts the Tick calls since the Dispatch call that assigned
ScenarioDispatch ==
    /\ dispatch_ride
    /\ trip_ticks' = IF results' # <<>> THEN 0 ELSE trip_ticks
    /\ UNCHANGED <<REJECTION_RATE, MOVE_SPEED, events, calls, probe, data_lock, frames>>

ScenarioTick ==
    /\ current_time < MaxScenarioTime
    /\ tick
    /\ trip_ticks' = trip_ticks + 1
    /\ UNCHANGED <<REJECTION_RATE, MOVE_SPEED, events, calls, probe, data_lock, frames>>

NextScenario ==
    \/ ScenarioDispatch
    \/ ScenarioTick

SpecScenario == InitScenario /\ [][NextScenario]_vars

----------------------------------------------------------------------------
(* Trip runs: one driver and one Waiting request, the driver on a spot,    *)
(* pickup and dropoff on any two places (the same place included), any     *)
(* speed; the request is assigned by a Dispatch call or a manual accept    *)
(* and Tick calls follow.  events collects what the Tick calls return.     *)

InitTrip ==
    /\ \E spot \in DriverSpots, pickup \in Places, dropoff \in Places :
         /\ drivers = [i \in 1..1 |-> Driver(i, spot[1], spot[2], AVAILABLE, None)]
         /\ riders = [i \in 1..1 |-> Rider(i, pickup, dropoff)]
         /\ requests = [i \in 1..1 |-> RideRequest(i, 1, pickup, dropoff)]
    /\ driver_counter = 1
    /\ rider_counter = 1
    /\ request_counter = 1
    /\ drivers_driver_counter = 2
    /\ riders_rider_counter = 2
    /\ requests_request_counter = 2
    /\ current_time = 0
    /\ last = Call("start", 200, None, None)
    /\ results = <<>>
    /\ offers = <<>>
    /\ updated_requests = <<>>
    /\ REJECTION_RATE \in RejectionRates
    /\ MOVE_SPEED \in MoveSpeeds
    /\ trip_ticks = 0
    /\ events = <<>>
    /\ calls = 0
    /\ NoCallers
    /\ probe = NoProbe

TripFixed == UNCHANGED <<REJECTION_RATE, MOVE_SPEED, calls, probe, data_lock, frames>>

\* POST /dispatch; trip_ticks restarts when the call assigned the request
TripDispatch ==
    /\ dispatch_ride
    /\ trip_ticks' = IF \E i \in DOMAIN results' : results'[i].status = "assigned"
                     THEN 0 ELSE trip_ticks
    /\ UNCHANGED events
    /\ TripFixed

\* POST /requests/{request_id}/accept; trip_ticks restarts when it assigned
TripAccept ==
    /\ \E r \in DOMAIN requests, d \in DOMAIN drivers : accept_request(r, d)
    /\ trip_ticks' = IF last'.code = 200 THEN 0 ELSE trip_ticks
    /\ UNCHANGED events
    /\ TripFixed

\* POST /tick
TripTick ==
    /\ current_time < MaxScenarioTime
    /\ tick
    /\ trip_ticks' = trip_ticks + 1
    /\ events' = events \o updated_requests'
    /\ TripFixed

NextTrip ==
    \/ TripDispatch
    \/ TripAccept
    \/ TripTick

SpecTrip == InitTrip /\ [][NextTrip]_vars

----------------------------------------------------------------------------
(* The service with its bulk endpoints: POST /init-sample-data and         *)
(* POST /reset-all at any time between router creations, manual accepts    *)
(* and ticks.                                                              *)

\* the service as deployed with one of MoveSpeeds
InitSample ==
    /\ Imported
    /\ REJECTION_RATE = 1
    /\ MOVE_SPEED \in MoveSpeeds
    /\ trip_ticks = 0
    /\ events = <<>>
    /\ calls = 0
    /\ NoCallers
    /\ probe = NoProbe

\* POST /drivers/ with the body of sample_drivers[0]
SampleCreateDriver == create_driver(<<0, 0>>, AVAILABLE) /\ Fixed

NextSample ==
    \/ InitSampleData
    \/ ResetAll
    \/ SampleCreateDriver
    \/ CreateRider
    \/ CreateRequest

SpecSample == InitSample /\ [][NextSample]_vars

\* trips on the sample world: requests created by the router after
\* POST /init-sample-data, manual accepts and ticks
NextSampleTrips ==
    \/ InitSampleData
    \/ CreateRequest
    \/ AcceptRequest
    \/ Tick

SpecSampleTrips == InitSample /\ [][NextSampleTrips]_vars

----------------------------------------------------------------------------
(* Movement runs: move_towards_target applied, again and again, from a     *)
(* drawn position towards a drawn target at a drawn speed.                 *)

ProbeCoords == 0..MaxProbe

InitMove ==
    /\ Imported
    /\ REJECTION_RATE = 1
    /\ MOVE_SPEED \in 1..MaxProbeSpeed
    /\ trip_ticks = 0
    /\ events = <<>>
    /\ calls = 0
    /\ NoCallers
    /\ \E cx \in ProbeCoords, cy \in ProbeCoords, tx \in ProbeCoords, ty \in ProbeCoords :
         probe = [applied |-> FALSE, old_x |-> cx, old_y |-> cy, x |-> cx, y |-> cy,
                  target_x |-> tx, target_y |-> ty]

MoveStep ==
    /\ <<probe.x, probe.y>> # <<probe.target_x, probe.target_y>>
    /\ LET new == move_towards_target(probe.x, probe.y, probe.target_x, probe.target_y)
       IN probe' = [probe EXCEPT !.applied = TRUE, !.old_x = probe.x, !.old_y = probe.y,
                                 !.x = new[1], !.y = new[2]]
    /\ UNCHANGED <<drivers, riders, requests, counters, current_time, REJECTION_RATE,
                   MOVE_SPEED, last, results, offers, updated_requests, trip_ticks, events, calls,
                   data_lock, frames>>

\* a call made with the position already at the target
MoveStay ==
    /\ <<probe.x, probe.y>> = <<probe.target_x, probe.target_y>>
    /\ ~probe.applied
    /\ LET new == move_towards_target(probe.x, probe.y, probe.target_x, probe.target_y)
       IN probe' = [probe EXCEPT !.applied = TRUE, !.x = new[1], !.y = new[2]]
    /\ UNCHANGED <<drivers, riders, requests, counters, current_time, REJECTION_RATE,
                   MOVE_SPEED, last, results, offers, updated_requests, trip_ticks, events, calls,
                   data_lock, frames>>

NextMove ==
    \/ MoveStep
    \/ MoveStay

SpecMove == InitMove /\ [][NextMove]_vars

----------------------------------------------------------------------------
(* Runs over every mutating endpoint of the service, the bulk endpoints    *)
(* included, up to MaxCalls calls from the state after import.             *)

\* one more call served
Served ==
    /\ calls < MaxCalls
    /\ calls' = calls + 1
    /\ UNCHANGED <<REJECTION_RATE, MOVE_SPEED, trip_ticks, events, probe, data_lock, frames>>

EveryDispatch == dispatch_ride /\ Served
EveryTick == tick /\ Served
EveryInitSampleData == init_sample_data /\ Served
EveryResetAll == reset_all_data /\ Served
EveryCreateDriver ==
    (\E pos \in DriverSpots, status \in DriverStatus : create_driver(pos, status)) /\ Served
EveryUpdateDriverStatus ==
    (\E d \in DriverIdInputs, status \in DriverStatus : update_driver_status(d, status))
    /\ Served
EveryDeleteDriver == (\E d \in DriverIdInputs : delete_driver(d)) /\ Served
EveryCreateRider == (\E t \in RiderTrips : create_rider(t[1], t[2])) /\ Served
EveryUpdateRider ==
    (\E r \in RiderIdInputs, t \in Trips : update_rider(r, t[1], t[2])) /\ Served
EveryDeleteRider == (\E r \in RiderIdInputs : delete_rider(r)) /\ Served
EveryCreateRequest ==
    (\E r \in RiderIdInputs, t \in Trips : create_request(r, t[1], t[2])) /\ Served
EveryAcceptRequest ==
    (\E r \in RequestIdInputs, d \in DriverIdInputs : accept_request(r, d)) /\ Served
EveryRejectRequest ==
    (\E r \in RequestIdInputs, d \in DriverIdInputs : reject_request(r, d)) /\ Served

NextEvery ==
    \/ EveryDispatch
    \/ EveryTick
    \/ EveryInitSampleData
    \/ EveryResetAll
    \/ EveryCreateDriver
    \/ EveryUpdateDriverStatus
    \/ EveryDeleteDriver
    \/ EveryCreateRider
    \/ EveryUpdateRider
    \/ EveryDeleteRider
    \/ EveryCreateRequest
    \/ EveryAcceptRequest
    \/ EveryRejectRequest

SpecEvery == InitSample /\ [][NextEvery]_vars

----------------------------------------------------------------------------
(* The handlers step by step, with callers on threads.  data_lock is a     *)
(* threading.Lock, which matters once handlers run on more than one        *)
(* thread; under the event loop alone one caller is in a handler at a time *)
(* and the runs in which the callers take turns are those runs.  A call    *)
(* goes through the precondition checks of its handler, the entry of the   *)
(* `with` block and the locked body with the exit of the block.  The       *)
(* checks of one handler, and the body of one handler, are one step each.  *)

Frame(pc, op, request_id, driver_id, status, checked) ==
    [pc |-> pc, op |-> op, request_id |-> request_id, driver_id |-> driver_id,
     status |-> status, checked |-> checked]

\* one Available driver and one Waiting request
InitLock ==
    /\ \E spots \in [1..1 -> DriverSpots] :
          Created(1, 1, [i \in 1..1 |-> <<spots[i], AVAILABLE>>],
                  [i \in 1..1 |-> <<<<0, 0>>, <<2, 1>>>>])
    /\ REJECTION_RATE = 1
    /\ MOVE_SPEED = 2
    /\ trip_ticks = 0
    /\ events = <<>>
    /\ calls = 0
    /\ probe = NoProbe
    /\ NoCallers

LockFixed == UNCHANGED <<REJECTION_RATE, MOVE_SPEED, trip_ticks, events, calls, probe>>

\* the service functions behind POST /dispatch, /tick and /reset-all: the
\* endpoint calls the function, whose first statement is `with data_lock:`
ServiceOps == {"dispatch_ride", "tick", "reset_all_data"}

EnterService(c) ==
    /\ frames[c].pc = "idle"
    /\ \E op \in ServiceOps :
          /\ op = "tick" =>
                current_time + Cardinality({o \in Callers : frames[o].op = "tick"})
                    < MaxTime
          /\ frames' = [frames EXCEPT ![c] = Frame("acquire", op, None, None, "none", FALSE)]
    /\ UNCHANGED <<world, counters, current_time, last, results, offers, updated_requests,
                   data_lock>>
    /\ LockFixed

\* the calls of the router handlers that check before `if lock: with lock:`,
\* on the entities of the store
RouterCalls ==
    {Frame("acquire", op, r, d, "none", TRUE) :
        op \in {"accept_request", "reject_request"},
        r \in DOMAIN requests, d \in DOMAIN drivers}
    \cup {Frame("acquire", "update_driver_status", None, d, st, TRUE) :
            d \in DOMAIN drivers, st \in DriverStatus}
    \cup {Frame("acquire", "delete_driver", None, d, "none", TRUE) : d \in DOMAIN drivers}

\* the HTTP status the checks of a router handler end with (200: passed)
RouterCheck(f) ==
    IF f.op = "accept_request" THEN AcceptCheck(f.request_id, f.driver_id)
    ELSE IF f.op = "reject_request" THEN RejectCheck(f.request_id, f.driver_id)
    ELSE IF f.driver_id \notin DOMAIN drivers THEN 404
    ELSE 200

\* a router handler up to `if lock:`: it raises the HTTPException of a failed
\* check, or goes on to the `with` block
EnterRouter(c) ==
    /\ frames[c].pc = "idle"
    /\ \E f \in RouterCalls :
          IF RouterCheck(f) # 200
          THEN /\ last' = Call(f.op, RouterCheck(f), None, None)
               /\ NoLists
               /\ UNCHANGED frames
          ELSE /\ frames' = [frames EXCEPT ![c] = f]
               /\ UNCHANGED <<last, results, offers, updated_requests>>
    /\ UNCHANGED <<world, counters, current_time, data_lock>>
    /\ LockFixed

\* `with data_lock:` entered: the caller blocks until the lock is free
Acquire(c) ==
    /\ frames[c].pc = "acquire"
    /\ data_lock = None
    /\ data_lock' = c
    /\ frames' = [frames EXCEPT ![c].pc = "locked"]
    /\ UNCHANGED <<world, counters, current_time, last, results, offers, updated_requests>>
    /\ LockFixed

\* a faulty variant of leaving the block that keeps the lock when the body raised
Released_unless_raised(c, code) == IF code = 200 THEN None ELSE c

\* data_lock after the `with` block is left by caller c, by return or by raise
Released(c, code) == None

\* the locked body of a service function, and the exit of its `with` block
RunService(c) ==
    /\ frames[c].pc = "locked"
    /\ frames[c].op \in ServiceOps
    /\ IF frames[c].op = "dispatch_ride" THEN dispatch_ride
       ELSE IF frames[c].op = "tick" THEN tick
       ELSE reset_all_data
    /\ data_lock' = Released(c, 200)
    /\ frames' = [frames EXCEPT ![c] = IdleFrame]
    /\ LockFixed

\* the dicts a locked router body leaves and the HTTP status of the call: a
\* dict lookup of a key that is gone raises KeyError before any write (500)
RouterBody(f) ==
    LET raised == [drivers |-> drivers, requests |-> requests, code |-> 500]
        done(w) == [drivers |-> w.drivers, requests |-> w.requests, code |-> 200]
    IN IF f.op = "accept_request"
       THEN IF f.request_id \in DOMAIN requests /\ f.driver_id \in DOMAIN drivers
            THEN done(accept_request_internal(drivers, requests,
                                              f.request_id, f.driver_id))
            ELSE raised
       ELSE IF f.op = "reject_request"
       THEN IF f.request_id \in DOMAIN requests
            THEN done(reject_request_internal(drivers, requests,
                                              f.request_id, f.driver_id))
            ELSE raised
       ELSE IF f.driver_id \notin DOMAIN drivers THEN raised
       ELSE IF f.op = "update_driver_status"
       THEN [drivers |-> [drivers EXCEPT ![f.driver_id] =
                             StatusUpdatedDriver(drivers[f.driver_id],
                                                 f.driver_id, f.status)],
             requests |-> requests, code |-> 200]
       ELSE [drivers |-> Del(drivers, f.driver_id), requests |-> requests,
             code |-> 200]

\* the locked body of a router handler, and the exit of its `with` block
RunRouter(c) ==
    /\ frames[c].pc = "locked"
    /\ frames[c].op \notin ServiceOps
    /\ LET w == RouterBody(frames[c])
       IN /\ drivers' = w.drivers
          /\ requests' = w.requests
          /\ last' = Call(frames[c].op, w.code, frames[c].request_id,
                          frames[c].driver_id)
          /\ data_lock' = Released(c, w.code)
    /\ frames' = [frames EXCEPT ![c] = IdleFrame]
    /\ NoLists
    /\ UNCHANGED <<riders, counters, current_time>>
    /\ LockFixed

NextLock ==
    \E c \in Callers :
        \/ EnterService(c)
        \/ EnterRouter(c)
        \/ Acquire(c)
        \/ RunService(c)
        \/ RunRouter(c)

SpecLock == InitLock /\ [][NextLock]_vars

\* fair scheduling of the threads: the caller inside a locked body goes on
\* (one caller at most is there), and a caller that finds the lock free again
\* and again gets it
FairSpecLock ==
    /\ SpecLock
    /\ WF_vars(\E c \in Callers : RunService(c) \/ RunRouter(c))
    /\ \A c \in Callers : SF_vars(Acquire(c))

----------------------------------------------------------------------------
(* Properties *)

\* number of drivers whose status is Available in a driver dict
AvailableCount(drv) == Cardinality({d \in DOMAIN drv : drv[d].status = AVAILABLE})

\* whether the Tick call just served returned an event of this kind
HasEvent(e) == \E i \in DOMAIN updated_requests : updated_requests[i].event = e

\* C1: within one Dispatch call no two "assigned" results carry the same
\* assigned_driver_id (a driver is matched to at most one request per call).
C1_NoDoubleBooking ==
    last.op = "dispatch_ride" =>
        \A i, j \in DOMAIN results :
            (i # j /\ results[i].status = "assigned" /\ results[j].status = "assigned")
                => results[i].assigned_driver_id # results[j].assigned_driver_id

\* C2: after a Dispatch call every Assigned request names a driver that exists,
\* is OnTrip and whose assigned_request_id is that request (back-reference
\* symmetry).
C2_BackReferenceSymmetry ==
    last.op = "dispatch_ride" =>
        \A r \in DOMAIN requests :
            requests[r].status = ASSIGNED =>
                /\ requests[r].assigned_driver_id \in DOMAIN drivers
                /\ drivers[requests[r].assigned_driver_id].status = ON_TRIP
                /\ drivers[requests[r].assigned_driver_id].assigned_request_id = r

\* C3: in every state reached by Dispatch, Tick, manual accept and manual
\* reject calls, every Assigned request has a non-null assigned_driver_id and
\* the driver it names is OnTrip.
C3_AssignedHasOnTripDriver ==
    \A r \in DOMAIN requests :
        requests[r].status = ASSIGNED =>
            /\ requests[r].assigned_driver_id # None
            /\ requests[r].assigned_driver_id \in DOMAIN drivers
            /\ drivers[requests[r].assigned_driver_id].status = ON_TRIP

\* C4: in every reachable state a driver's assigned_request_id is set if and
\* only if the driver is OnTrip, and when set it names a request whose
\* assigned_driver_id is that driver.
C4_AssignedIffOnTrip ==
    \A d \in DOMAIN drivers :
        /\ (drivers[d].assigned_request_id # None) <=> (drivers[d].status = ON_TRIP)
        /\ drivers[d].assigned_request_id # None =>
               /\ drivers[d].assigned_request_id \in DOMAIN requests
               /\ requests[drivers[d].assigned_request_id].assigned_driver_id = d

\* C5: every request a Dispatch call sets to Failed records, on the request
\* and in its result entry, attempts equal to the number of drivers Available
\* at the start of the call, and a null assigned_driver_id.
C5_FailedAttempts ==
    [][last'.op = "dispatch_ride" =>
         LET n == AvailableCount(drivers)
         IN /\ \A r \in DOMAIN requests :
                  (requests[r].status = WAITING /\ requests'[r].status = FAILED) =>
                      /\ requests'[r].attempts = n
                      /\ requests'[r].assigned_driver_id = None
                      /\ \E i \in DOMAIN results' :
                             results'[i] = [request_id |-> r, assigned_driver_id |-> None,
                                            attempts |-> n, status |-> "failed"]
            /\ \A i \in DOMAIN results' :
                  results'[i].status = "failed" =>
                      /\ results'[i].attempts = n
                      /\ results'[i].assigned_driver_id = None
                      /\ requests[results'[i].request_id].status = WAITING
                      /\ requests'[results'[i].request_id].status = FAILED
      ]_vars

\* C5 witness: a Dispatch call that failed a request after both of the two
\* Available drivers rejected it.
C5_Witness ==
    /\ last.op = "dispatch_ride"
    /\ \E i \in DOMAIN results :
          /\ results[i].status = "failed"
          /\ results[i].attempts = 2
          /\ requests[results[i].request_id].status = FAILED

\* C6: with rejection rate 1 and at least one Available driver, Dispatch
\* reports "failed" with attempts = number of initially Available drivers for
\* every Waiting request, in order, sets each to Failed and leaves every
\* driver unchanged.
C6_AllRejected ==
    [][(last'.op = "dispatch_ride" /\ REJECTION_RATE = 10 /\ AvailableCount(drivers) >= 1) =>
         LET n == AvailableCount(drivers)
             waiting == waiting_requests(requests)
         IN /\ drivers' = drivers
            /\ Len(results') = Len(waiting)
            /\ \A i \in DOMAIN waiting :
                  /\ results'[i] = [request_id |-> waiting[i], assigned_driver_id |-> None,
                                    attempts |-> n, status |-> "failed"]
                  /\ requests'[waiting[i]] =
                         [requests[waiting[i]] EXCEPT !.status = FAILED, !.attempts = n]
            /\ \A r \in DOMAIN requests :
                  requests[r].status # WAITING => requests'[r] = requests[r]
      ]_vars

\* C6 witness: at rejection rate 1 a Dispatch call failed two Waiting requests.
C6_Witness ==
    /\ REJECTION_RATE = 10
    /\ last.op = "dispatch_ride"
    /\ Len(results) = 2
    /\ \A i \in DOMAIN results : results[i].status = "failed" /\ results[i].attempts >= 1

\* C7: with no driver Available at the start, Dispatch returns an empty results
\* list and changes no request, driver or rider.
C7_NoDriversNoChange ==
    [][(last'.op = "dispatch_ride" /\ AvailableCount(drivers) = 0) =>
         /\ results' = <<>>
         /\ UNCHANGED <<drivers, riders, requests>>
      ]_vars

\* C7 witness: a Dispatch call served with a Waiting request, a driver in the
\* store and no driver Available.
C7_Witness ==
    /\ last.op = "dispatch_ride"
    /\ results = <<>>
    /\ DOMAIN drivers # {}
    /\ AvailableCount(drivers) = 0
    /\ \E r \in DOMAIN requests : requests[r].status = WAITING

\* the scenario-A member of the scenario runs: rejection rate 0, speed 1,
\* pickup (2,2) (the driver starts at (0,0), the dropoff is (8,8))
ScenarioA ==
    /\ REJECTION_RATE = 0
    /\ MOVE_SPEED = 1
    /\ requests[1].pickup_x = 2 /\ requests[1].pickup_y = 2

\* scenario A with reached_pickup on tick p and completed on tick c after the
\* Dispatch call
ScenarioATimeline(p, c) ==
    ScenarioA =>
        /\ (last.op = "dispatch_ride" /\ results # <<>>) =>
               results = <<[request_id |-> 1, assigned_driver_id |-> 1,
                            attempts |-> 0, status |-> "assigned"]>>
        /\ requests[1].status # WAITING => requests[1].attempts = 0
        /\ HasEvent("reached_pickup") =>
               trip_ticks = p /\ drivers[1].x = 2 /\ drivers[1].y = 2
        /\ (requests[1].status = ASSIGNED /\ last.op = "tick" /\ trip_ticks = p) =>
               HasEvent("reached_pickup")
        /\ HasEvent("completed") =>
               trip_ticks = c /\ drivers[1].x = 8 /\ drivers[1].y = 8
        /\ (requests[1].status # WAITING /\ last.op = "tick" /\ trip_ticks = c) =>
               HasEvent("completed")

\* C8 as claimed: in scenario A Dispatch assigns with attempts = 0, the driver
\* reaches (2,2) and reached_pickup is emitted on the 4th tick, and completed is
\* emitted 6 ticks later (the 10th).
C8_ScenarioA_Claimed == ScenarioATimeline(4, 10)

\* C8 amended: in scenario A Dispatch assigns with attempts = 0, the driver
\* reaches (2,2) and reached_pickup is emitted on the 2nd tick (both axes move
\* in one tick), and completed is emitted 6 ticks later (the 8th).
C8_ScenarioA ==  ScenarioATimeline(2, 8)

\* C8 witness: scenario A at the tick that emits completed.
C8_Witness ==
    /\ ScenarioA
    /\ last.op = "tick"
    /\ HasEvent("completed")
    /\ trip_ticks = 8
    /\ requests[1].status = COMPLETED

Between(a, b, c) == (a <= b /\ b <= c) \/ (c <= b /\ b <= a)

\* C9: one movement step never overshoots: the new position is no farther
\* (rectilinear) from the target than the old one, and its x (y) lies between
\* the old x (y) and the target x (y) inclusive.
C9_NoOvershoot ==
    probe.applied =>
        /\ calculate_manhattan_distance(probe.x, probe.y, probe.target_x, probe.target_y)
             <= calculate_manhattan_distance(probe.old_x, probe.old_y,
                                             probe.target_x, probe.target_y)
        /\ Between(probe.old_x, probe.x, probe.target_x)
        /\ Between(probe.old_y, probe.y, probe.target_y)

\* C9 witness: a step at speed 3 from x = 4 towards x = 3, clamped at the target,
\* with y moving up by the full step.
C9_Witness ==
    /\ probe.applied
    /\ MOVE_SPEED = 3
    /\ probe.old_x = 4 /\ probe.target_x = 3 /\ probe.x = 3
    /\ probe.old_y = 0 /\ probe.target_y = 4 /\ probe.y = 3

\* C10: a Tick call served while no driver is OnTrip advances the time counter
\* by exactly one, returns no event and changes no driver, rider or request.
C10_IdleTick ==
    [][(last'.op = "tick" /\ \A d \in DOMAIN drivers : drivers[d].status # ON_TRIP) =>
         /\ current_time' = current_time + 1
         /\ updated_requests' = <<>>
         /\ UNCHANGED <<drivers, riders, requests>>
      ]_vars

\* C10 witness: a Tick call served with a driver in the store that still holds
\* an assigned request but is not OnTrip, and no driver OnTrip.
C10_Witness ==
    /\ last.op = "tick"
    /\ current_time >= 1
    /\ updated_requests = <<>>
    /\ \A d \in DOMAIN drivers : drivers[d].status # ON_TRIP
    /\ \E d \in DOMAIN drivers :
          /\ drivers[d].assigned_request_id \in DOMAIN requests
          /\ requests[drivers[d].assigned_request_id].status = ASSIGNED

\* C11: whenever a Tick call emits "completed" for a driver/request pair, in
\* the state the call leaves the request is Completed with picked_up false, the
\* driver is Available with no assigned request, and the driver stands on the
\* request's dropoff coordinates.
C11_CompletedSevered ==
    last.op = "tick" =>
        \A i \in DOMAIN updated_requests :
            updated_requests[i].event = "completed" =>
                LET d == updated_requests[i].driver_id
                    r == updated_requests[i].request_id
                IN /\ requests[r].status = COMPLETED
                   /\ requests[r].picked_up = FALSE
                   /\ drivers[d].status = AVAILABLE
                   /\ drivers[d].assigned_request_id = None
                   /\ drivers[d].x = requests[r].dropoff_x
                   /\ drivers[d].y = requests[r].dropoff_y

\* C12: a create call never hands out an id that an entity of the same kind in
\* the store already has, and the ids a router hands out only grow.
C12_NoIdReuse ==
    [][/\ drivers_driver_counter' # drivers_driver_counter =>
            /\ drivers_driver_counter \notin DOMAIN drivers
            /\ drivers_driver_counter' > drivers_driver_counter
       /\ riders_rider_counter' # riders_rider_counter =>
            /\ riders_rider_counter \notin DOMAIN riders
            /\ riders_rider_counter' > riders_rider_counter
       /\ requests_request_counter' # requests_request_counter =>
            /\ requests_request_counter \notin DOMAIN requests
            /\ requests_request_counter' > requests_request_counter
      ]_vars

\* the precondition of a manual accept and of a manual reject
AcceptPrecondition(r, d) ==
    /\ r \in DOMAIN requests
    /\ requests[r].status = WAITING
    /\ d \in DOMAIN drivers
    /\ drivers[d].status = AVAILABLE
RejectPrecondition(r, d) ==
    /\ r \in DOMAIN requests
    /\ requests[r].status = WAITING
    /\ d \in DOMAIN drivers

\* the error a failed precondition is answered with: not-found for an absent
\* request, and for an absent driver once the request has passed
RefusedWith(r, d, code) ==
    /\ code \in {400, 404}
    /\ r \notin DOMAIN requests => code = 404
    /\ (r \in DOMAIN requests /\ requests[r].status # WAITING) => code = 400
    /\ (r \in DOMAIN requests /\ requests[r].status = WAITING /\ d \notin DOMAIN drivers)
           => code = 404

\* C14: a manual accept or reject whose precondition fails (request absent,
\* request not Waiting, driver absent, or for accept driver not Available) is
\* answered with an error and leaves drivers, riders and requests unchanged.
\* For every pair of ids: the precondition holds, or the step is a refusal that
\* changes nothing, or the step is not that call.
C14_RefusedUnchanged ==
    [][/\ last'.op = "accept_request" =>
            \A r \in RequestIdInputs, d \in DriverIdInputs :
               \/ AcceptPrecondition(r, d)
               \/ /\ RefusedWith(r, d, last'.code)
                  /\ UNCHANGED <<drivers, riders, requests>>
               \/ ~accept_request(r, d)
       /\ last'.op = "reject_request" =>
            \A r \in RequestIdInputs, d \in DriverIdInputs :
               \/ RejectPrecondition(r, d)
               \/ /\ RefusedWith(r, d, last'.code)
                  /\ UNCHANGED <<drivers, riders, requests>>
               \/ ~reject_request(r, d)
      ]_vars

\* C14 witness: a manual accept was refused with 400 while every request in the
\* store is Waiting, so it was refused because the named driver is not Available.
C14_Witness ==
    /\ last.op = "accept_request"
    /\ last.code = 400
    /\ requests # EmptyDict
    /\ \A r \in DOMAIN requests : requests[r].status = WAITING
    /\ \E d \in DOMAIN drivers : drivers[d].status # AVAILABLE

\* C15: a manual accept naming a Waiting request and an Available driver sets
\* the request to Assigned to that driver with attempts 0 and the driver to
\* OnTrip linked to the request, whatever the scores, and changes no other
\* driver or request.
C15_ManualAccept ==
    [][last'.op = "accept_request" =>
       \A r \in RequestIdInputs, d \in DriverIdInputs :
          (AcceptPrecondition(r, d) /\ accept_request(r, d)) =>
              /\ last'.code = 200
              /\ DOMAIN requests' = DOMAIN requests
              /\ DOMAIN drivers' = DOMAIN drivers
              /\ requests'[r].status = ASSIGNED
              /\ requests'[r].assigned_driver_id = d
              /\ requests'[r].attempts = 0
              /\ drivers'[d].status = ON_TRIP
              /\ drivers'[d].assigned_request_id = r
              /\ \A o \in DOMAIN drivers \ {d} : drivers'[o] = drivers[o]
              /\ \A o \in DOMAIN requests \ {r} : requests'[o] = requests[o]
      ]_vars

\* C15 witness: a manual accept succeeded for a driver while another driver,
\* Available and strictly closer to the pickup, was passed over.
C15_Witness ==
    /\ last.op = "accept_request"
    /\ last.code = 200
    /\ requests[last.request_id].status = ASSIGNED
    /\ drivers[last.driver_id].status = ON_TRIP
    /\ \E b \in DOMAIN drivers :
          /\ drivers[b].status = AVAILABLE
          /\ Abs(drivers[b].x - requests[last.request_id].pickup_x)
               + Abs(drivers[b].y - requests[last.request_id].pickup_y)
             < Abs(drivers[last.driver_id].x - requests[last.request_id].pickup_x)
               + Abs(drivers[last.driver_id].y - requests[last.request_id].pickup_y)

\* the score of section 4.1 for a driver of the store and a request of the store
ClaimedScore(b, r) ==
    DISPATCH_ALPHA * (Abs(drivers[b].x - requests[r].pickup_x)
                      + Abs(drivers[b].y - requests[r].pickup_y))
    + DISPATCH_BETA * (IF drivers[b].assigned_request_id # None THEN 1 ELSE 0)

\* the Available drivers other than d
OtherAvailable(d) == {b \in DOMAIN drivers : drivers[b].status = AVAILABLE /\ b # d}

\* C16: a manual reject of a Waiting request by an existing driver d adds one
\* to the request's attempts and leaves it Assigned to a lowest-score Available
\* driver other than d (that driver OnTrip and linked to the request), or,
\* when there is no such driver, Failed with a null assigned_driver_id; it is
\* never assigned to d and never left Waiting.
C16_ManualReject ==
    [][last'.op = "reject_request" =>
       \A r \in RequestIdInputs, d \in DriverIdInputs :
          (RejectPrecondition(r, d) /\ reject_request(r, d)) =>
              /\ last'.code = 200
              /\ requests'[r].attempts = requests[r].attempts + 1
              /\ requests'[r].status \in {ASSIGNED, FAILED}
              /\ requests'[r].assigned_driver_id # d
              /\ IF OtherAvailable(d) = {}
                 THEN /\ requests'[r].status = FAILED
                      /\ requests'[r].assigned_driver_id = None
                      /\ drivers' = drivers
                 ELSE LET b == requests'[r].assigned_driver_id
                      IN /\ requests'[r].status = ASSIGNED
                         /\ b \in OtherAvailable(d)
                         /\ \A o \in OtherAvailable(d) : ClaimedScore(b, r) <= ClaimedScore(o, r)
                         /\ drivers'[b].status = ON_TRIP
                         /\ drivers'[b].assigned_request_id = r
                         /\ \A o \in DOMAIN drivers \ {b} : drivers'[o] = drivers[o]
      ]_vars

\* C16 witness: a manual reject left the request, now with one attempt,
\* Assigned to a driver other than the rejecting one while a third driver,
\* Available and carrying an assigned request (load term 1), was passed over.
C16_Witness ==
    /\ last.op = "reject_request"
    /\ last.code = 200
    /\ requests[last.request_id].status = ASSIGNED
    /\ requests[last.request_id].attempts = 1
    /\ requests[last.request_id].assigned_driver_id \in DOMAIN drivers \ {last.driver_id}
    /\ \E o \in DOMAIN drivers \ {last.driver_id,
                                  requests[last.request_id].assigned_driver_id} :
          /\ drivers[o].status = AVAILABLE
          /\ drivers[o].assigned_request_id # None

\* C17: a status update of a driver of the store changes that driver's status
\* field and nothing else: its position and assigned_request_id, every other
\* driver, every request and every rider stay as they were.
C17_StatusOnly ==
    [][last'.op = "update_driver_status" =>
       \A d \in DriverIdInputs, st \in DriverStatus :
          (d \in DOMAIN drivers /\ update_driver_status(d, st)) =>
              /\ last'.code = 200
              /\ DOMAIN drivers' = DOMAIN drivers
              /\ drivers'[d].status = st
              /\ drivers'[d].id = drivers[d].id
              /\ drivers'[d].x = drivers[d].x
              /\ drivers'[d].y = drivers[d].y
              /\ drivers'[d].assigned_request_id = drivers[d].assigned_request_id
              /\ \A o \in DOMAIN drivers \ {d} : drivers'[o] = drivers[o]
              /\ UNCHANGED <<requests, riders>>
      ]_vars

\* C17 witness: the only driver of the store, carrying the rider of its
\* assigned request, was just switched to Offline and kept the assignment.
C17_Witness ==
    /\ last.op = "update_driver_status"
    /\ last.code = 200
    /\ Cardinality(DOMAIN drivers) = 1
    /\ \A d \in DOMAIN drivers :
          /\ drivers[d].status = OFFLINE
          /\ drivers[d].assigned_request_id \in DOMAIN requests
          /\ requests[drivers[d].assigned_request_id].picked_up

\* every assigned_request_id held by a driver names a request of the store:
\* requests are never removed one by one, and requests.clear() comes with
\* drivers.clear() (dispatch.py:305-307, 372-374)
AssignedRequestsStored ==
    \A d \in DOMAIN drivers :
        drivers[d].assigned_request_id # None =>
            drivers[d].assigned_request_id \in DOMAIN requests

\* the drivers that accepted a request earlier in the dispatch round whose
\* results are res, before entry i
BookedBefore(res, i) ==
    {res[j].assigned_driver_id : j \in {k \in 1..(i - 1) : res[k].status = "assigned"}}

\* the score of section 4.1 at the time of an offer: the driver has an assigned
\* request when it held one before the round or was booked earlier in it
OfferScore(d, r, booked) ==
    DISPATCH_ALPHA * (Abs(drivers[d].x - requests[r].pickup_x)
                      + Abs(drivers[d].y - requests[r].pickup_y))
    + DISPATCH_BETA * (IF drivers[d].assigned_request_id # None \/ d \in booked
                       THEN 1 ELSE 0)

\* the candidate of minimum score, the first in iteration order among equals
MinScoreFirst(cands, r, booked) ==
    CHOOSE d \in cands :
        \A o \in cands :
            \/ OfferScore(d, r, booked) < OfferScore(o, r, booked)
            \/ OfferScore(d, r, booked) = OfferScore(o, r, booked) /\ d <= o

\* the candidate offered after k refusals, each refusing candidate removed
RECURSIVE OfferAfter(_, _, _, _)
OfferAfter(cands, r, booked, k) ==
    IF k = 0 THEN MinScoreFirst(cands, r, booked)
    ELSE OfferAfter(cands \ {MinScoreFirst(cands, r, booked)}, r, booked, k - 1)

C13_LockHeldThroughout ==
    \A c \in Callers :
        (frames[c].checked \/ frames[c].pc = "locked") => data_lock = c

\* C18: no operation blocks for ever: under fair scheduling a caller waiting
\* for data_lock gets it and its operation returns, the lock being released
\* on the way out whether the body returned or raised.
C18_NoCallBlocksForEver ==
    \A c \in Callers : (frames[c].pc = "acquire") ~> (frames[c].pc = "idle")

\* C18 witness: a call has just ended by a KeyError in its locked body, the
\* lock is free again and another caller is waiting for it.
C18_Witness ==
    /\ last.code = 500
    /\ data_lock = None
    /\ \E c \in Callers : frames[c].pc = "acquire"

\* the positions in the offers of a Dispatch call of the offers made for request r
OffersFor(off, r) == {i \in DOMAIN off : off[i].request_id = r}

\* C21: while Dispatch processes one request no driver is offered it twice:
\* the offers for a request go to distinct drivers, all of them Available at
\* the start of the call, so they are at most N, the number of those drivers;
\* only requests Waiting at the start are offered, and with N >= 1 each of
\* them ends Assigned or Failed.
C21_OneOfferPerCandidate ==
    [][last'.op = "dispatch_ride" =>
       LET n == AvailableCount(drivers)
       IN \A r \in DOMAIN requests :
             /\ \A i, j \in OffersFor(offers', r) :
                   i # j => offers'[i].driver_id # offers'[j].driver_id
             /\ \A i \in OffersFor(offers', r) :
                   /\ offers'[i].driver_id \in DOMAIN drivers
                   /\ drivers[offers'[i].driver_id].status = AVAILABLE
                   /\ requests[r].status = WAITING
             /\ Cardinality(OffersFor(offers', r)) <= n
             /\ (requests[r].status = WAITING /\ n >= 1) =>
                   /\ requests'[r].status \in {ASSIGNED, FAILED}
                   /\ OffersFor(offers', r) # {}
      ]_vars

\* C21 witness: a Dispatch call offered one request to two drivers in turn,
\* the first refused and the second accepted.
C21_Witness ==
    /\ last.op = "dispatch_ride"
    /\ Len(offers) >= 2
    /\ offers[1].request_id = offers[2].request_id
    /\ offers[1].driver_id # offers[2].driver_id
    /\ ~offers[1].accepted
    /\ offers[2].accepted

\* C22: for every request a Dispatch call sets to Assigned, attempts is the
\* number of drivers that refused the request before the accepting one and is
\* below the number of drivers Available at the start; the accepting offer is
\* the last one for the request; and the result entry carries the attempts
\* and assigned_driver_id stored on the request.
C22_AssignedAttempts ==
    [][last'.op = "dispatch_ride" =>
       LET n == AvailableCount(drivers)
       IN /\ \A i \in DOMAIN results' :
                results'[i].status = "assigned" =>
                   LET r == results'[i].request_id
                       refused == {k \in OffersFor(offers', r) : ~offers'[k].accepted}
                       accepted == {k \in OffersFor(offers', r) : offers'[k].accepted}
                   IN /\ requests[r].status = WAITING
                      /\ requests'[r].status = ASSIGNED
                      /\ results'[i].attempts = Cardinality(refused)
                      /\ results'[i].attempts < n
                      /\ Cardinality(accepted) = 1
                      /\ \A a \in accepted :
                            /\ offers'[a].driver_id = results'[i].assigned_driver_id
                            /\ \A k \in refused : k < a
                      /\ requests'[r].attempts = results'[i].attempts
                      /\ requests'[r].assigned_driver_id = results'[i].assigned_driver_id
          /\ \A r \in DOMAIN requests :
                (requests[r].status = WAITING /\ requests'[r].status = ASSIGNED) =>
                   \E i \in DOMAIN results' :
                      results'[i].request_id = r /\ results'[i].status = "assigned"
      ]_vars

\* C22 witness: a Dispatch call assigned a request after one refusal, and the
\* request stores one attempt and the driver of the result entry.
C22_Witness ==
    /\ last.op = "dispatch_ride"
    /\ \E i \in DOMAIN results :
          /\ results[i].status = "assigned"
          /\ results[i].attempts = 1
          /\ requests[results[i].request_id].attempts = 1
          /\ requests[results[i].request_id].assigned_driver_id
                = results[i].assigned_driver_id

\* C23: with a driver Available at the start of a Dispatch call, the requests
\* Waiting at the start each end Assigned or Failed and are reported once
\* each, in store order, with the outcome stored on them; no request is added
\* or removed, and the other requests are neither changed nor reported.
C23_EveryWaitingSettled ==
    [][(last'.op = "dispatch_ride" /\ AvailableCount(drivers) >= 1) =>
       LET waiting == {r \in DOMAIN requests : requests[r].status = WAITING}
       IN /\ DOMAIN requests' = DOMAIN requests
          /\ Len(results') = Cardinality(waiting)
          /\ {results'[i].request_id : i \in DOMAIN results'} = waiting
          /\ \A i, j \in DOMAIN results' :
                i < j => results'[i].request_id < results'[j].request_id
          /\ \A i \in DOMAIN results' :
                \/ /\ results'[i].status = "assigned"
                   /\ requests'[results'[i].request_id].status = ASSIGNED
                \/ /\ results'[i].status = "failed"
                   /\ requests'[results'[i].request_id].status = FAILED
          /\ \A r \in DOMAIN requests \ waiting : requests'[r] = requests[r]
      ]_vars

\* C23 witness: a Dispatch call settled the one Waiting request while the
\* other request of the store, Completed before the call, was left out.
C23_Witness ==
    /\ last.op = "dispatch_ride"
    /\ Len(results) = 1
    /\ \E r \in DOMAIN requests :
          /\ r # results[1].request_id
          /\ requests[r].status = COMPLETED
    /\ requests[results[1].request_id].status \in {ASSIGNED, FAILED}

\* the events a Tick call returned for driver d
EventsOf(evs, d) == {i \in DOMAIN evs : evs[i].driver_id = d}

\* whether Tick processes driver d: OnTrip with an assigned request of the store
Processed(d) ==
    /\ drivers[d].status = ON_TRIP
    /\ drivers[d].assigned_request_id # None
    /\ drivers[d].assigned_request_id \in DOMAIN requests

\* C24: a Tick call adds exactly one to the time counter and processes each
\* OnTrip driver with a resolvable request once: the driver makes at most one
\* step (at most MOVE_SPEED on each axis) toward the target of its current leg
\* without passing it, at most one event is returned for it, and in the tick
\* in which it reaches the pickup it stops there.  The other drivers are left
\* as they were and get no event.
C24_OneStepPerTick ==
    [][last'.op = "tick" =>
       /\ current_time' = current_time + 1
       /\ DOMAIN drivers' = DOMAIN drivers
       /\ \A i \in DOMAIN updated_requests' :
             updated_requests'[i].driver_id \in DOMAIN drivers
       /\ \A d \in DOMAIN drivers :
             IF Processed(d)
             THEN LET request == requests[drivers[d].assigned_request_id]
                      tx == IF request.picked_up THEN request.dropoff_x
                            ELSE request.pickup_x
                      ty == IF request.picked_up THEN request.dropoff_y
                            ELSE request.pickup_y
                  IN /\ Cardinality(EventsOf(updated_requests', d)) <= 1
                     /\ Abs(drivers'[d].x - drivers[d].x) <= MOVE_SPEED
                     /\ Abs(drivers'[d].y - drivers[d].y) <= MOVE_SPEED
                     /\ Between(drivers[d].x, drivers'[d].x, tx)
                     /\ Between(drivers[d].y, drivers'[d].y, ty)
             ELSE /\ drivers'[d] = drivers[d]
                  /\ EventsOf(updated_requests', d) = {}
      ]_vars

\* C24 witness: at speed 1 the second Tick call brought a driver onto the
\* pickup of its request, which differs from the dropoff, and returned
\* reached_pickup for it.
C24_Witness ==
    /\ last.op = "tick"
    /\ MOVE_SPEED = 1
    /\ current_time = 2
    /\ \E i \in DOMAIN updated_requests :
          LET d == updated_requests[i].driver_id
              r == updated_requests[i].request_id
          IN /\ updated_requests[i].event = "reached_pickup"
             /\ requests[r].picked_up
             /\ drivers[d].x = requests[r].pickup_x
             /\ drivers[d].y = requests[r].pickup_y
             /\ <<requests[r].pickup_x, requests[r].pickup_y>>
                   # <<requests[r].dropoff_x, requests[r].dropoff_y>>

\* C25: when a Tick call processes an OnTrip driver that stands on the pickup
\* of its request and picked_up is false, it returns one reached_pickup event
\* for the pair, sets picked_up, and leaves the driver (its position
\* included) and the request's other fields as they were.
C25_AlreadyAtPickup ==
    [][last'.op = "tick" =>
       \A d \in DOMAIN drivers :
          (/\ Processed(d)
           /\ ~requests[drivers[d].assigned_request_id].picked_up
           /\ drivers[d].x = requests[drivers[d].assigned_request_id].pickup_x
           /\ drivers[d].y = requests[drivers[d].assigned_request_id].pickup_y) =>
              LET r == drivers[d].assigned_request_id
              IN /\ \A i \in EventsOf(updated_requests', d) :
                       updated_requests'[i] =
                          [driver_id |-> d, request_id |-> r, event |-> "reached_pickup"]
                 /\ Cardinality(EventsOf(updated_requests', d)) = 1
                 /\ requests'[r] = [requests[r] EXCEPT !.picked_up = TRUE]
                 /\ drivers'[d] = drivers[d]
      ]_vars

\* C25 witness: at speed 1 the first Tick call after the assignment returned
\* reached_pickup: the driver stood on the pickup when it was assigned.
C25_Witness ==
    /\ last.op = "tick"
    /\ MOVE_SPEED = 1
    /\ trip_ticks = 1
    /\ Len(updated_requests) = 1
    /\ updated_requests[1].event = "reached_pickup"
    /\ drivers[1].x = requests[1].pickup_x
    /\ drivers[1].y = requests[1].pickup_y
    /\ requests[1].picked_up

\* the positions in the events served so far of the events e of request r
EventsFor(r, e) ==
    {i \in DOMAIN events : events[i].request_id = r /\ events[i].event = e}

C27_PickedUpOnlyOnTrip ==
    \A r \in DOMAIN requests :
        /\ requests[r].picked_up =>
              /\ requests[r].status = ASSIGNED
              /\ requests[r].assigned_driver_id \in DOMAIN drivers
              /\ drivers[requests[r].assigned_driver_id].status = ON_TRIP
              /\ drivers[requests[r].assigned_driver_id].assigned_request_id = r
        /\ requests[r].status \in {WAITING, FAILED, COMPLETED} => ~requests[r].picked_up

----------------------------------------------------------------------------
(* The clock.                                                               *)

\* C28: over every sequence of calls the time counter grows by exactly one
\* on each Tick and is left as it is by every other call (Dispatch, the
\* CRUD calls of drivers, riders and requests, manual accept and reject,
\* InitSampleData and ResetAll), whatever the call answers; so it is never
\* reset and never decreases.
C28_ClockMovesOnlyOnTick ==
    [][IF last'.op = "tick"
       THEN current_time' = current_time + 1
       ELSE current_time' = current_time]_vars

\* the store was emptied by ResetAll after two Ticks, and the clock still
\* reads two
C28_Witness ==
    /\ last.op = "reset_all_data"
    /\ drivers = EmptyDict
    /\ current_time = 2

----------------------------------------------------------------------------
(* Trips come to an end.                                                    *)

\* C29: every assigned trip completes under repeated Tick calls, for every
\* placement of driver, pickup and dropoff (pickup equal to dropoff
\* included) and every positive speed.  No trip over the places is longer
\* than six steps, so MaxScenarioTime Tick calls after the assignment the
\* request is no longer Assigned and its driver is Available again.
C29_AssignedTripCompletes ==
    trip_ticks = MaxScenarioTime =>
        /\ \A r \in DOMAIN requests : requests[r].status # ASSIGNED
        /\ \A d \in DOMAIN drivers : drivers[d].status = AVAILABLE

----------------------------------------------------------------------------
(* Terminal request statuses.                                               *)

----------------------------------------------------------------------------
(* What Dispatch, Tick and the manual reject leave alone.                  *)

Position(driver) == <<driver.x, driver.y>>

\* C31: Dispatch and Tick add and remove no driver, rider or request.  An
\* Offline driver is left as it is by Dispatch, Tick and the manual reject:
\* Dispatch offers it no request, neither Dispatch nor the manual reject
\* assigns it one, and Tick does not move it.  Dispatch changes no driver's
\* position and Tick changes the position of OnTrip drivers only.
C31_OfflineLeftAlone ==
    [][/\ last'.op \in {"dispatch_ride", "tick"} =>
             /\ DOMAIN drivers' = DOMAIN drivers
             /\ DOMAIN riders' = DOMAIN riders
             /\ DOMAIN requests' = DOMAIN requests
       /\ last'.op \in {"dispatch_ride", "tick", "reject_request"} =>
             /\ \A d \in DOMAIN drivers :
                   drivers[d].status = OFFLINE => d \in DOMAIN drivers' /\ drivers'[d] = drivers[d]
             /\ \A r \in DOMAIN requests' :
                   /\ requests'[r].status = ASSIGNED
                   /\ r \in DOMAIN requests => requests[r].status # ASSIGNED
                   => /\ requests'[r].assigned_driver_id \in DOMAIN drivers
                      /\ drivers[requests'[r].assigned_driver_id].status # OFFLINE
       /\ last'.op = "dispatch_ride" =>
             /\ \A i \in DOMAIN offers' :
                   /\ offers'[i].driver_id \in DOMAIN drivers
                   /\ drivers[offers'[i].driver_id].status # OFFLINE
             /\ \A d \in DOMAIN drivers :
                   d \in DOMAIN drivers' /\ Position(drivers'[d]) = Position(drivers[d])
       /\ last'.op = "tick" =>
             \A d \in DOMAIN drivers :
                 /\ d \in DOMAIN drivers'
                 /\ Position(drivers'[d]) # Position(drivers[d]) => drivers[d].status = ON_TRIP]_vars

\* a Dispatch was served with an Offline driver in the store: the offers
\* went to other drivers, all of whom refused, and the request is Failed
C31_Witness ==
    /\ last.op = "dispatch_ride"
    /\ offers # <<>>
    /\ \E d \in DOMAIN drivers :
          /\ drivers[d].status = OFFLINE
          /\ \A i \in DOMAIN offers : offers[i].driver_id # d
    /\ \E r \in DOMAIN requests : requests[r].status = FAILED

====
